---- MODULE Spec2Model ----
(***************************************************************************)
(* Model of main() of examples/pipeline/ieeg/iEEG_example.ipynb: the       *)
(* argparse command line of the example, followed by the four pipeline      *)
(* stages PDI.main, DPC.main, PPI.main and PFSI.main called in sequence.    *)
(*                                                                          *)
(* The four stages are external library functions.  Each is modelled by     *)
(* what main() can observe of it: it is called with arguments, and then it  *)
(* returns some value, raises, or never comes back.                         *)
(***************************************************************************)
EXTENDS Integers, Sequences, FiniteSets, TLC

VARIABLES
    argv,          \* sys.argv[1:], the command line main() is started with
    pc,            \* position of main()
    args,          \* the parsed Namespace (None before parse_args returns)
    DF,            \* local DF
    fs,            \* local fs
    qflag,         \* local qflag
    feature_dict,  \* local feature_dict
    trace,         \* observable events of the run: calls, returns, raises, prints
    result         \* the value main() returned (None until it returns)

vars == <<argv, pc, args, DF, fs, qflag, feature_dict, trace, result>>

-----------------------------------------------------------------------------
(* Python's None and a bound value.  An optional value is None or Some(v). *)
None == <<>>
Some(v) == <<v>>
Val(o) == o[1]

-----------------------------------------------------------------------------
(* Bounds of the model. *)

\* longest command line explored, in tokens
MaxArgv == 4

\* the tokens a command line is made of: every option string main() adds,
\* the help option, an unambiguous and an ambiguous abbreviation, a word and
\* a decimal literal
Tokens ==
    { "-u", "--user", "-p", "--password", "--dataset", "--start",
      "--duration", "--local_path", "--silent", "--nchan",
      "-h", "--sil", "--s", "alice", "7" }

\* the values the external stages may hand back
DataFrames == {"dfA", "dfB"}
SampFreqs == {256, 512}
FeatureDicts == {"featsA", "featsB"}

-----------------------------------------------------------------------------
(* The parser built by main(). *)

\* the options of the parser: the help option ArgumentParser() adds itself,
\* then the parser.add_argument(...) calls, in order
Options ==
    << [flags |-> {"-h", "--help"}, dest |-> "help", required |-> FALSE,
        action |-> "help", type |-> "str"],
       [flags |-> {"-u", "--user"}, dest |-> "user", required |-> TRUE,
        action |-> "store", type |-> "str"],
       [flags |-> {"-p", "--password"}, dest |-> "password", required |-> FALSE,
        action |-> "store", type |-> "str"],
       [flags |-> {"--dataset"}, dest |-> "dataset", required |-> FALSE,
        action |-> "store", type |-> "str"],
       [flags |-> {"--start"}, dest |-> "start", required |-> FALSE,
        action |-> "store", type |-> "int"],
       [flags |-> {"--duration"}, dest |-> "duration", required |-> FALSE,
        action |-> "store", type |-> "int"],
       [flags |-> {"--local_path"}, dest |-> "local_path", required |-> FALSE,
        action |-> "store", type |-> "str"],
       [flags |-> {"--silent"}, dest |-> "verbose", required |-> FALSE,
        action |-> "store_false", type |-> "str"],
       [flags |-> {"--nchan"}, dest |-> "nchan", required |-> FALSE,
        action |-> "store", type |-> "int"] >>

\* variant: --silent declared with default=False
Defaults_verboseOff ==
    [user |-> None, password |-> None, dataset |-> None, start |-> None,
     duration |-> None, local_path |-> None, verbose |-> FALSE, nchan |-> None]

\* the Namespace before any option is seen: each dest at its default
Defaults ==
    [user |-> None, password |-> None, dataset |-> None, start |-> None,
     duration |-> None, local_path |-> None, verbose |-> TRUE, nchan |-> None]

\* str.startswith
StartsWith(s, p) == Len(p) <= Len(s) /\ SubSeq(s, 1, Len(p)) = p

\* a token that begins with the prefix character is an option string,
\* anything else is a positional argument
IsOptionLike(tok) == Len(tok) >= 2 /\ SubSeq(tok, 1, 1) = "-"

\* the options a token selects: the one that has it as an option string,
\* otherwise every option one of whose long option strings it abbreviates
Matches(tok) ==
    LET exact == {i \in DOMAIN Options : tok \in Options[i].flags}
    IN  IF exact # {} THEN exact
        ELSE IF StartsWith(tok, "--")
             THEN {i \in DOMAIN Options :
                      \E f \in Options[i].flags : StartsWith(f, tok)}
             ELSE {i \in DOMAIN Options :
                      \E f \in Options[i].flags :
                          f = SubSeq(tok, 1, 2) \/ StartsWith(f, tok)}

DigitChars == <<"0", "1", "2", "3", "4", "5", "6", "7", "8", "9">>

IsDigit(c) == \E d \in DOMAIN DigitChars : DigitChars[d] = c

DigitVal(c) == (CHOOSE d \in DOMAIN DigitChars : DigitChars[d] = c) - 1

RECURSIVE DigitsVal(_, _)
\* value of the first n characters of a string of decimal digits
DigitsVal(s, n) ==
    IF n = 0 THEN 0
    ELSE 10 * DigitsVal(s, n - 1) + DigitVal(SubSeq(s, n, n))

\* type=int: int(s) of a decimal literal with optional sign, None when
\* int(s) raises ValueError
IntOf(s) ==
    LET signed == Len(s) >= 1 /\ SubSeq(s, 1, 1) \in {"-", "+"}
        body == IF signed THEN SubSeq(s, 2, Len(s)) ELSE s
    IN  IF Len(body) >= 1 /\ \A k \in 1..Len(body) : IsDigit(SubSeq(body, k, k))
        THEN Some(IF signed /\ SubSeq(s, 1, 1) = "-"
                  THEN 0 - DigitsVal(body, Len(body))
                  ELSE DigitsVal(body, Len(body)))
        ELSE None

\* the value stored for an option given the argument string
Convert(type, s) == IF type = "int" THEN IntOf(s) ELSE Some(s)

\* variant: required=True left out
MissingRequired_never(seen) == FALSE

\* required=True: a required option was not among the options taken
MissingRequired(seen) ==
    \E o \in DOMAIN Options : Options[o].required /\ o \notin seen

RECURSIVE Consume(_, _, _, _, _)
\* the left-to-right scan of parse_args over tokens i.. of a: ns is the
\* Namespace so far, seen the options taken, extras whether an argument was
\* left unrecognised.  The result is [ok |-> TRUE, ns |-> Namespace], or
\* [ok |-> FALSE, code |-> c] when the process exits with status c: 2 when
\* the parser calls error(), 0 after printing the help.
Consume(a, i, ns, seen, extras) ==
    IF i > Len(a)
    THEN IF MissingRequired(seen)
         THEN [ok |-> FALSE, code |-> 2]
         ELSE IF extras THEN [ok |-> FALSE, code |-> 2]
         ELSE [ok |-> TRUE, ns |-> ns]
    ELSE LET tok == a[i]
             m == Matches(tok)
         IN  IF ~IsOptionLike(tok) \/ m = {}
             THEN Consume(a, i + 1, ns, seen, TRUE)
             ELSE LET o == CHOOSE x \in m : TRUE
                      opt == Options[o]
                  IN  IF opt.action = "help"
                      THEN [ok |-> FALSE, code |-> 0]
                      ELSE IF opt.action = "store_false"
                      THEN Consume(a, i + 1, [ns EXCEPT ![opt.dest] = FALSE],
                                   seen \cup {o}, extras)
                      ELSE IF i + 1 > Len(a) \/ IsOptionLike(a[i + 1])
                      THEN [ok |-> FALSE, code |-> 2]
                      ELSE LET v == Convert(opt.type, a[i + 1])
                           IN  IF v = None THEN [ok |-> FALSE, code |-> 2]
                               ELSE Consume(a, i + 2,
                                            [ns EXCEPT ![opt.dest] = v],
                                            seen \cup {o}, extras)

\* parser.parse_args(): an option string that abbreviates more than one
\* option is an error before anything is consumed
parse_args(a) ==
    IF \E i \in DOMAIN a : IsOptionLike(a[i]) /\ Cardinality(Matches(a[i])) > 1
    THEN [ok |-> FALSE, code |-> 2]
    ELSE Consume(a, 1, Defaults, {}, FALSE)

-----------------------------------------------------------------------------
(* The calls main() makes. *)

\* number of channels main() tells the quality check to expect
ExpectedChannels == 16

\* DPC.main(DF, N, M=-1, dtype='float64', verbose=True): the defaults of the
\* parameters main() does not pass
DPC_M_default == -1
DPC_dtype_default == "float64"

\* the status line main() prints
StatusMessage == "All data quality checks came back True. Proceeding to next step."

\* variant: the print guarded by the flag alone
ShouldPrint_flagOnly(q, verbose) == q

\* the condition of the if statement that guards the print
ShouldPrint(q, verbose) == q /\ verbose

\* PDI.main(args)
PDICall(a) == [ev |-> "call", fn |-> "PDI.main", a |-> a]

\* variant: verbose not passed on, DPC.main falls back to its default True
DPCCall_defaultVerbose(df, a) ==
    [ev |-> "call", fn |-> "DPC.main", DF |-> df, N |-> ExpectedChannels,
     M |-> DPC_M_default, dtype |-> DPC_dtype_default, verbose |-> TRUE]

\* variant: the expected channel count taken from --nchan when it is given
DPCCall_nchan(df, a) ==
    [ev |-> "call", fn |-> "DPC.main", DF |-> df,
     N |-> IF a.nchan = None THEN ExpectedChannels ELSE Val(a.nchan),
     M |-> DPC_M_default, dtype |-> DPC_dtype_default, verbose |-> a.verbose]

\* DPC.main(DF,16,verbose=args.verbose)
DPCCall(df, a) ==
    [ev |-> "call", fn |-> "DPC.main", DF |-> df, N |-> ExpectedChannels,
     M |-> DPC_M_default, dtype |-> DPC_dtype_default, verbose |-> a.verbose]

\* PPI.main(DF)
PPICall(df) == [ev |-> "call", fn |-> "PPI.main", DF |-> df]

\* PFSI.main(DF,fs)
PFSICall(df, f) == [ev |-> "call", fn |-> "PFSI.main", DF |-> df, samp_freq |-> f]

\* a stage hands v back to main(), or raises
Return(fn, v) == [ev |-> "return", fn |-> fn, val |-> v]
Raise(fn) == [ev |-> "raise", fn |-> fn]
\* parse_args ends the process: sys.exit(code)
SystemExit(code) == [ev |-> "exit", fn |-> "parse_args", code |-> code]
\* print(text) in main()
Printed(text) == [ev |-> "print", fn |-> "main", text |-> text]

\* the tuple main() returns
ReturnValue(df, f, fd) == <<df, f, fd>>

-----------------------------------------------------------------------------
Argvs == UNION {[1..n -> Tokens] : n \in 0..MaxArgv}

Init ==
    /\ argv \in Argvs
    /\ pc = "parse_args"
    /\ args = None
    /\ DF = None
    /\ fs = None
    /\ qflag = None
    /\ feature_dict = None
    /\ trace = <<>>
    /\ result = None

\* args = parser.parse_args()
ParseArgs ==
    /\ pc = "parse_args"
    /\ LET r == parse_args(argv)
       IN  IF r.ok
           THEN /\ args' = Some(r.ns)
                /\ pc' = "call_PDI"
                /\ trace' = trace
           ELSE /\ args' = args
                /\ pc' = "SystemExit"
                /\ trace' = Append(trace, SystemExit(r.code))
    /\ UNCHANGED <<argv, DF, fs, qflag, feature_dict, result>>

\* DF,fs = PDI.main(args): the call
CallPDI ==
    /\ pc = "call_PDI"
    /\ trace' = Append(trace, PDICall(Val(args)))
    /\ pc' = "in_PDI"
    /\ UNCHANGED <<argv, args, DF, fs, qflag, feature_dict, result>>

\* variant: the quality check left out
ReturnPDI_skipCheck ==
    /\ pc = "in_PDI"
    /\ \E df \in DataFrames, f \in SampFreqs :
          /\ DF' = Some(df)
          /\ fs' = Some(f)
          /\ trace' = Append(trace, Return("PDI.main", <<df, f>>))
    /\ pc' = "call_PPI"
    /\ UNCHANGED <<argv, args, qflag, feature_dict, result>>

\* DF,fs = PDI.main(args): the stage returns and the pair is unpacked
ReturnPDI ==
    /\ pc = "in_PDI"
    /\ \E df \in DataFrames, f \in SampFreqs :
          /\ DF' = Some(df)
          /\ fs' = Some(f)
          /\ trace' = Append(trace, Return("PDI.main", <<df, f>>))
    /\ pc' = "call_DPC"
    /\ UNCHANGED <<argv, args, qflag, feature_dict, result>>

\* variant: a failed ingestion is tried again
RaisePDI_retry ==
    /\ pc = "in_PDI"
    /\ trace' = Append(trace, Raise("PDI.main"))
    /\ pc' = "call_PDI"
    /\ UNCHANGED <<argv, args, DF, fs, qflag, feature_dict, result>>

\* PDI.main raises; main() has no handler
RaisePDI ==
    /\ pc = "in_PDI"
    /\ trace' = Append(trace, Raise("PDI.main"))
    /\ pc' = "raised"
    /\ UNCHANGED <<argv, args, DF, fs, qflag, feature_dict, result>>

\* qflag = DPC.main(DF,16,verbose=args.verbose): the call
CallDPC ==
    /\ pc = "call_DPC"
    /\ trace' = Append(trace, DPCCall(Val(DF), Val(args)))
    /\ pc' = "in_DPC"
    /\ UNCHANGED <<argv, args, DF, fs, qflag, feature_dict, result>>

\* qflag = DPC.main(...): the stage returns its flag
ReturnDPC ==
    /\ pc = "in_DPC"
    /\ \E q \in BOOLEAN :
          /\ qflag' = Some(q)
          /\ trace' = Append(trace, Return("DPC.main", q))
    /\ pc' = "if_qflag"
    /\ UNCHANGED <<argv, args, DF, fs, feature_dict, result>>

\* DPC.main raises
RaiseDPC ==
    /\ pc = "in_DPC"
    /\ trace' = Append(trace, Raise("DPC.main"))
    /\ pc' = "raised"
    /\ UNCHANGED <<argv, args, DF, fs, qflag, feature_dict, result>>

\* variant: a false flag ends the run
IfQflag_gated ==
    /\ pc = "if_qflag"
    /\ trace' = IF ShouldPrint(Val(qflag), Val(args).verbose)
                THEN Append(trace, Printed(StatusMessage))
                ELSE trace
    /\ pc' = IF Val(qflag) THEN "call_PPI" ELSE "done"
    /\ UNCHANGED <<argv, args, DF, fs, qflag, feature_dict, result>>

\* if qflag and args.verbose: print(...)
IfQflag ==
    /\ pc = "if_qflag"
    /\ trace' = IF ShouldPrint(Val(qflag), Val(args).verbose)
                THEN Append(trace, Printed(StatusMessage))
                ELSE trace
    /\ pc' = "call_PPI"
    /\ UNCHANGED <<argv, args, DF, fs, qflag, feature_dict, result>>

\* DF = PPI.main(DF): the call
CallPPI ==
    /\ pc = "call_PPI"
    /\ trace' = Append(trace, PPICall(Val(DF)))
    /\ pc' = "in_PPI"
    /\ UNCHANGED <<argv, args, DF, fs, qflag, feature_dict, result>>

\* variant: PPI.main(DF) called without rebinding DF
ReturnPPI_notRebound ==
    /\ pc = "in_PPI"
    /\ \E df \in DataFrames :
          trace' = Append(trace, Return("PPI.main", df))
    /\ pc' = "call_PFSI"
    /\ UNCHANGED <<argv, args, DF, fs, qflag, feature_dict, result>>

\* DF = PPI.main(DF): the stage returns and DF is rebound
ReturnPPI ==
    /\ pc = "in_PPI"
    /\ \E df \in DataFrames :
          /\ DF' = Some(df)
          /\ trace' = Append(trace, Return("PPI.main", df))
    /\ pc' = "call_PFSI"
    /\ UNCHANGED <<argv, args, fs, qflag, feature_dict, result>>

\* PPI.main raises
RaisePPI ==
    /\ pc = "in_PPI"
    /\ trace' = Append(trace, Raise("PPI.main"))
    /\ pc' = "raised"
    /\ UNCHANGED <<argv, args, DF, fs, qflag, feature_dict, result>>

\* variant: the channel count passed where the sampling frequency belongs
CallPFSI_wrongFreq ==
    /\ pc = "call_PFSI"
    /\ trace' = Append(trace, PFSICall(Val(DF), ExpectedChannels))
    /\ pc' = "in_PFSI"
    /\ UNCHANGED <<argv, args, DF, fs, qflag, feature_dict, result>>

\* feature_dict = PFSI.main(DF,fs): the call
CallPFSI ==
    /\ pc = "call_PFSI"
    /\ trace' = Append(trace, PFSICall(Val(DF), Val(fs)))
    /\ pc' = "in_PFSI"
    /\ UNCHANGED <<argv, args, DF, fs, qflag, feature_dict, result>>

\* feature_dict = PFSI.main(DF,fs): the stage returns
ReturnPFSI ==
    /\ pc = "in_PFSI"
    /\ \E fd \in FeatureDicts :
          /\ feature_dict' = Some(fd)
          /\ trace' = Append(trace, Return("PFSI.main", fd))
    /\ pc' = "return"
    /\ UNCHANGED <<argv, args, DF, fs, qflag, result>>

\* PFSI.main raises
RaisePFSI ==
    /\ pc = "in_PFSI"
    /\ trace' = Append(trace, Raise("PFSI.main"))
    /\ pc' = "raised"
    /\ UNCHANGED <<argv, args, DF, fs, qflag, feature_dict, result>>

\* return DF,fs,feature_dict
ReturnMain ==
    /\ pc = "return"
    /\ result' = Some(ReturnValue(Val(DF), Val(fs), Val(feature_dict)))
    /\ pc' = "done"
    /\ UNCHANGED <<argv, args, DF, fs, qflag, feature_dict, trace>>

Next ==
    \/ ParseArgs
    \/ CallPDI
    \/ ReturnPDI
    \/ RaisePDI
    \/ CallDPC
    \/ ReturnDPC
    \/ RaiseDPC
    \/ IfQflag
    \/ CallPPI
    \/ ReturnPPI
    \/ RaisePPI
    \/ CallPFSI
    \/ ReturnPFSI
    \/ RaisePFSI
    \/ ReturnMain

Spec == Init /\ [][Next]_vars

-----------------------------------------------------------------------------
(* Reading the trace. *)

\* positions of the events of kind ev of fn
At(ev, fn) == {i \in DOMAIN trace : trace[i].ev = ev /\ trace[i].fn = fn}

Called(fn) == At("call", fn) # {}
Returned(fn) == At("return", fn) # {}

\* the (first) call of fn and the value fn returned
CallOf(fn) == trace[CHOOSE i \in At("call", fn) : \A j \in At("call", fn) : i <= j]
RetOf(fn) == trace[CHOOSE i \in At("return", fn) : TRUE].val

Stages == {"PDI.main", "DPC.main", "PPI.main", "PFSI.main"}

\* the calls and returns of a run in which every stage returns
StageOrder ==
    << <<"call", "PDI.main">>, <<"return", "PDI.main">>,
       <<"call", "DPC.main">>, <<"return", "DPC.main">>,
       <<"call", "PPI.main">>, <<"return", "PPI.main">>,
       <<"call", "PFSI.main">>, <<"return", "PFSI.main">> >>

IsStageEvent(e) == e.ev \in {"call", "return"} /\ e.fn \in Stages

\* the calls and returns of the trace, as <<kind, stage>> pairs
StageEvents ==
    LET sel == SelectSeq(trace, IsStageEvent)
    IN  [i \in DOMAIN sel |-> <<sel[i].ev, sel[i].fn>>]

\* the run has failed: the parser exited or a stage raised
Failed == \E i \in DOMAIN trace : trace[i].ev \in {"raise", "exit"}

\* the token selects the option stored under dest: it is one of its option
\* strings or an unambiguous abbreviation of one
Selects(tok, dest) ==
    /\ Len(tok) >= 2
    /\ SubSeq(tok, 1, 1) = "-"
    /\ \E o \in DOMAIN Options :
          /\ Options[o].dest = dest
          /\ \/ tok \in Options[o].flags
             \/ /\ \E f \in Options[o].flags : StartsWith(f, tok)
                /\ \A p \in DOMAIN Options :
                      (\E f \in Options[p].flags : StartsWith(f, tok)) => p = o

\* the command line gives the option stored under dest
Given(dest) == \E i \in DOMAIN argv : Selects(argv[i], dest)

-----------------------------------------------------------------------------
(* C1: in a run in which parsing succeeds and every stage returns, main()   *)
(* calls PDI.main, DPC.main, PPI.main, PFSI.main once each, in that order,  *)
(* each only after the one before has returned, and returns only after      *)
(* PFSI.main has returned.                                                   *)
C1_FixedOrder ==
    /\ Len(StageEvents) <= Len(StageOrder)
    /\ StageEvents = SubSeq(StageOrder, 1, Len(StageEvents))
    /\ (pc = "done" \/ result # None) => StageEvents = StageOrder

C1_Witness == pc = "done" /\ result # None /\ Len(StageEvents) = 8

(* C2: a command line without -u/--user makes parse_args exit before any    *)
(* stage is called and main() returns nothing; a command line that gives    *)
(* only the user parses.                                                     *)
C2_UserRequired ==
    /\ (~Given("user") /\ pc # "parse_args") =>
          /\ pc = "SystemExit"
          /\ args = None
          /\ result = None
          /\ \A fn \in Stages : ~Called(fn)
    /\ (/\ Len(argv) = 2
        /\ argv[1] \in {"-u", "--user"}
        /\ argv[2] \in {"alice", "7"}
        /\ pc # "parse_args") => pc # "SystemExit" /\ args # None

C2_Witness ==
    /\ pc = "SystemExit"
    /\ Len(argv) = 4
    /\ ~Given("user")
    /\ argv[1] = "--silent"
    /\ argv[2] = "--nchan"
    /\ argv[3] = "7"
    /\ argv[4] = "--silent"

(* C3: main() returns (DF, fs, feature_dict) where DF is the value PPI.main *)
(* returned, fs the sampling frequency PDI.main returned and feature_dict   *)
(* the value PFSI.main returned.                                             *)
C3_ReturnTriple ==
    result # None =>
        /\ pc = "done"
        /\ Returned("PDI.main") /\ Returned("PPI.main") /\ Returned("PFSI.main")
        /\ Len(Val(result)) = 3
        /\ Val(result)[1] = RetOf("PPI.main")
        /\ Val(result)[2] = RetOf("PDI.main")[2]
        /\ Val(result)[3] = RetOf("PFSI.main")

C3_Witness ==
    /\ result # None
    /\ Returned("PDI.main") /\ Returned("PPI.main")
    /\ RetOf("PPI.main") # RetOf("PDI.main")[1]
    /\ Val(result)[1] # RetOf("PDI.main")[1]

\* the last position of the command line that selects dest
LastGiven(dest) ==
    CHOOSE i \in DOMAIN argv :
        /\ Selects(argv[i], dest)
        /\ \A j \in DOMAIN argv : Selects(argv[j], dest) => j <= i

\* the argument string that follows the last occurrence of the option
ArgOf(dest) == argv[LastGiven(dest) + 1]

\* what the command line says about a string option and an integer option
AsGivenStr(dest) == IF Given(dest) THEN <<ArgOf(dest)>> ELSE <<>>
AsGivenInt(dest) ==
    IF ~Given(dest) THEN <<>>
    ELSE IF ArgOf(dest) = "7" THEN <<7>> ELSE <<"not an integer">>

(* C4: the argument of PDI.main is the parsed Namespace, unmodified: each   *)
(* of user, password, dataset, start, duration, local_path, verbose, nchan  *)
(* has the value the command line gives it, and None (verbose: True) when   *)
(* the command line omits it.                                                *)
C4_ArgsPassedThrough ==
    \A i \in At("call", "PDI.main") :
        LET a == trace[i].a
        IN  /\ a = Val(args)
            /\ DOMAIN a = {"user", "password", "dataset", "start", "duration",
                           "local_path", "verbose", "nchan"}
            /\ a.user = AsGivenStr("user")
            /\ a.password = AsGivenStr("password")
            /\ a.dataset = AsGivenStr("dataset")
            /\ a.local_path = AsGivenStr("local_path")
            /\ a.start = AsGivenInt("start")
            /\ a.duration = AsGivenInt("duration")
            /\ a.nchan = AsGivenInt("nchan")
            /\ a.verbose = ~Given("verbose")

C4_Witness ==
    /\ Called("PDI.main")
    /\ CallOf("PDI.main").a.user = <<"alice">>
    /\ CallOf("PDI.main").a.start = <<7>>
    /\ CallOf("PDI.main").a.password = <<>>
    /\ CallOf("PDI.main").a.verbose = TRUE

(* C5: verbose is True when the command line does not give --silent and     *)
(* False when it does, and DPC.main is called with that verbose.             *)
C5_SilentToggle ==
    /\ args # None => Val(args).verbose = ~Given("verbose")
    /\ \A i \in At("call", "DPC.main") :
          /\ trace[i].verbose = Val(args).verbose
          /\ trace[i].verbose = ~Given("verbose")

C5_Witness ==
    /\ Called("DPC.main")
    /\ CallOf("DPC.main").verbose = FALSE
    /\ \E i \in DOMAIN argv : argv[i] = "--silent"

(* C6: main() prints the status message exactly when DPC.main returned a    *)
(* true flag and verbose is True: at most once, right after DPC.main        *)
(* returns and before PPI.main is called, never with --silent or a false    *)
(* flag.                                                                     *)
C6_StatusMessage ==
    LET prints == {i \in DOMAIN trace : trace[i].ev = "print"}
    IN  /\ Cardinality(prints) <= 1
        /\ \A i \in prints :
              /\ trace[i].text =
                    "All data quality checks came back True. Proceeding to next step."
              /\ i > 1
              /\ trace[i - 1].ev = "return" /\ trace[i - 1].fn = "DPC.main"
              /\ trace[i - 1].val = TRUE
              /\ Val(args).verbose
              /\ ~Given("verbose")
              /\ \A j \in At("call", "PPI.main") : i < j
        /\ (Returned("DPC.main") /\ pc # "if_qflag") =>
              (prints # {} <=> (RetOf("DPC.main") = TRUE /\ Val(args).verbose))

C6_Witness ==
    /\ pc = "done"
    /\ \E i \in DOMAIN trace : trace[i].ev = "print"

(* C7: no retry and no fallback: when parse_args or a stage fails, nothing  *)
(* is called afterwards, main() returns no result, and no stage is ever     *)
(* called more than once.                                                    *)
C7_NoRetry ==
    /\ \A fn \in Stages : Cardinality(At("call", fn)) <= 1
    /\ \A i \in DOMAIN trace :
          trace[i].ev \in {"raise", "exit"} =>
              /\ i = Len(trace)
              /\ result = None
              /\ pc = (IF trace[i].ev = "exit" THEN "SystemExit" ELSE "raised")
    /\ pc \in {"raised", "SystemExit"} => Failed /\ result = None

C7_Witness ==
    /\ pc = "raised"
    /\ At("raise", "PPI.main") # {}
    /\ ~Called("PFSI.main")
    /\ result = None

(* C8: the quality flag does not gate the pipeline: whatever flag DPC.main  *)
(* returned and whatever verbose is, main() goes on to call PPI.main with   *)
(* the ingested dataframe and then PFSI.main, and returns a result.          *)
C8_FlagDoesNotGate ==
    Returned("DPC.main") =>
        /\ pc \in {"if_qflag", "call_PPI", "in_PPI", "call_PFSI", "in_PFSI",
                   "return", "done", "raised"}
        /\ pc \notin {"if_qflag", "call_PPI"} => Called("PPI.main")
        /\ pc = "raised" =>
              trace[Len(trace)].fn \in {"PPI.main", "PFSI.main"}
        /\ pc = "done" => Called("PFSI.main") /\ result # None

C8_Witness ==
    /\ pc = "done"
    /\ result # None
    /\ RetOf("DPC.main") = FALSE
    /\ Called("PPI.main") /\ Called("PFSI.main")

(* C9: DPC.main is always told to expect 16 channels, whatever --nchan      *)
(* says, and its expected sample count and dtype are left at their          *)
(* defaults, -1 and 'float64'.                                               *)
C9_SixteenChannels ==
    \A i \in At("call", "DPC.main") :
        /\ trace[i].N = 16
        /\ trace[i].M = -1
        /\ trace[i].dtype = "float64"

C9_Witness ==
    /\ Called("DPC.main")
    /\ Val(args).nchan = <<7>>
    /\ CallOf("DPC.main").N = 16

(* C10: DPC.main and PPI.main both receive the dataframe PDI.main returned, *)
(* PFSI.main receives the dataframe PPI.main returned and the sampling      *)
(* frequency PDI.main returned, and fs is never rebound after ingestion.    *)
C10_DataFlow ==
    /\ \A i \in At("call", "DPC.main") : trace[i].DF = RetOf("PDI.main")[1]
    /\ \A i \in At("call", "PPI.main") : trace[i].DF = RetOf("PDI.main")[1]
    /\ \A i \in At("call", "PFSI.main") :
          /\ trace[i].DF = RetOf("PPI.main")
          /\ trace[i].samp_freq = RetOf("PDI.main")[2]
    /\ fs = (IF Returned("PDI.main") THEN <<RetOf("PDI.main")[2]>> ELSE <<>>)

C10_Witness ==
    /\ Called("PFSI.main")
    /\ RetOf("DPC.main") = FALSE
    /\ CallOf("PFSI.main").DF # RetOf("PDI.main")[1]
    /\ CallOf("PPI.main").DF = RetOf("PDI.main")[1]

====
